---------------------------- MODULE Spec2Model ----------------------------
(***************************************************************************)
(* Model of the conformity-decision path of PDFANALYZE:                    *)
(*   config.py                  the template registry                      *)
(*   analyzer.py                TechnicalDocumentAnalyzer.analyze          *)
(*   pdf_analyzer_v2/analyzer.py the older analyzer of the same name       *)
(*   pdf_analyzer-main/analyze_pdf.py the decision rules of INSTRUCTIONS   *)
(*                                                                         *)
(* A model response is a sequence of tokens (whitespace, code fences,      *)
(* prose, a JSON value); a JSON object is a function from its keys to its  *)
(* values, so that a missing key is a key outside DOMAIN.                  *)
(***************************************************************************)
EXTENDS Integers, Sequences, FiniteSets, TLC

VARIABLES
    impl,       \* which analyzer module is deployed: "v1" (analyzer.py) or "v2"
    template,   \* the category key of the active template
    pc,         \* "idle", "analyzed" (one analyze call made), "repeated"
    response,   \* what the model call of the last analyze gave
    result,     \* what the last analyze returned
    prev,       \* response and result of the analyze call before the last
    registry,   \* config.TEMPLATES as the process holds it
    call,       \* the last call of a config.py function or of generate_prompt
    batch_pc,   \* "off", "ocr", "analyze", "analyzed", "reported", "raised"
    files,      \* the PDFs uploaded to the batch page
    documents,  \* the documents list given to analyze_multiple
    doc_responses, \* what the model call gave for each document analyzed
    results,    \* the results list analyze_multiple builds
    batch_report \* what generate_batch_report returned

analysis_vars == <<pc, response, result, prev>>
registry_vars == <<registry, call>>
batch_vars == <<batch_pc, files, documents, doc_responses, results, batch_report>>

vars == <<impl, template, pc, response, result, prev, registry, call,
          batch_pc, files, documents, doc_responses, results, batch_report>>

---------------------------------------------------------------------------
(* Bounds of the model. *)

\* longest "points" list of a response whose global fields vary
MaxPoints == 2
\* longest "points" list of a response whose points vary in every field
MaxDetailPoints == 1
\* longest run of tokens before the body of a response
MaxPrefix == 2
\* longest run of tokens after the body of a response
MaxSuffix == 1
\* most files uploaded to a batch
MaxDocs == 4
\* most documents given to analyze_multiple without filename and metadata
MaxBare == 2
\* longest results list given to generate_batch_report on its own
MaxResults == 3
\* most upper-case letters of a name looked up, names all in upper case apart
MaxUpper == 1

---------------------------------------------------------------------------
(* config.py *)

CriticityLevel == {"Mineur", "Majeur", "Critique"}

ControlPoint(name, criticity, synonyms) ==
    [name |-> name, criticity |-> criticity, synonyms |-> synonyms,
     required |-> TRUE]

TEMPLATE_AGRO_ALIMENTAIRE ==
    [name |-> "Fiche Technique Agro-alimentaire",
     description |-> "Analyse de fiches techniques produits agro-alimentaires",
     category |-> "agro",
     control_points |-> <<
        ControlPoint("Intitulé du produit", "Mineur",
            <<"Dénomination légale", "Nom du produit", "Nom commercial", "Produit">>),
        ControlPoint("Estampille", "Critique",
            <<"Estampille sanitaire", "N° d'agrément", "Agrément sanitaire", "FR", "CE">>),
        ControlPoint("Composition", "Critique",
            <<"Ingrédients", "Ingredients", "Composition", "Recette">>),
        ControlPoint("DLC / DLUO", "Critique",
            <<"Durée de vie", "Date limite", "Use by", "DDM", "DLC">>),
        ControlPoint("Température", "Critique",
            <<"Température de conservation", "Storage temperature", "À conserver à">>),
        ControlPoint("Origine", "Majeur",
            <<"Pays d'origine", "Origine", "Provenance">>),
        ControlPoint("Conditionnement", "Majeur",
            <<"Packaging", "Emballage", "Colisage", "Type de contenant">>),
        ControlPoint("Fournisseur", "Mineur",
            <<"Adresse fournisseur", "Fabricant", "Contact">>),
        ControlPoint("Certifications", "Mineur",
            <<"VRF", "VVF", "BIO", "VPF", "Label">>),
        ControlPoint("Critères microbiologiques", "Critique",
            <<"Microbiologie", "Germes", "Bactéries">>) >>]

TEMPLATE_ELECTRONIQUE ==
    [name |-> "Fiche Technique Électronique",
     description |-> "Analyse de fiches techniques composants électroniques",
     category |-> "electronique",
     control_points |-> <<
        ControlPoint("Référence produit", "Critique",
            <<"Part Number", "Référence", "PN", "SKU">>),
        ControlPoint("Spécifications électriques", "Critique",
            <<"Electrical Characteristics", "Specs", "Tension", "Courant">>),
        ControlPoint("Dimensions", "Majeur",
            <<"Package", "Footprint", "Dimensions", "Taille">>),
        ControlPoint("Plage de température", "Critique",
            <<"Operating Temperature", "Température", "Range">>),
        ControlPoint("Conformité RoHS", "Majeur",
            <<"RoHS", "REACH", "Conformité", "Environmental">>),
        ControlPoint("Datasheet version", "Mineur",
            <<"Revision", "Version", "Date">>) >>]

TEMPLATE_CHIMIE ==
    [name |-> "Fiche de Sécurité Chimique",
     description |-> "Analyse de fiches de données de sécurité (FDS)",
     category |-> "chimie",
     control_points |-> <<
        ControlPoint("Identification", "Critique",
            <<"Product Identifier", "Identification", "Nom chimique", "CAS">>),
        ControlPoint("Danger", "Critique",
            <<"Hazards", "Pictogrammes", "H-phrases", "Danger">>),
        ControlPoint("Composition", "Critique",
            <<"Composition", "Substances", "Mélange", "Ingrédients">>),
        ControlPoint("Premiers secours", "Critique",
            <<"First Aid", "Secours", "Intervention">>),
        ControlPoint("Manipulation", "Critique",
            <<"Handling", "Storage", "Manipulation", "Stockage">>),
        ControlPoint("Protection", "Critique",
            <<"PPE", "Protection", "EPC", "Gants", "Lunettes">>) >>]

TEMPLATES ==
    [agro |-> TEMPLATE_AGRO_ALIMENTAIRE,
     electronique |-> TEMPLATE_ELECTRONIQUE,
     chimie |-> TEMPLATE_CHIMIE]

\* the names of a template's control points
ControlPointNames(t) ==
    {t.control_points[i].name : i \in 1..Len(t.control_points)}

---------------------------------------------------------------------------
(* The values of the response schema, analyzer.py generate_prompt. *)

Statuses == {"CONFORME", "DOUTEUX", "NON_CONFORME"}
Recommendations == {"VALIDER", "DEMANDER_COMPLEMENT", "REFUSER"}
GlobalStatuses == {"CONFORME", "PARTIELLEMENT_CONFORME", "NON_CONFORME"}

\* JSON null
Null == "null"

---------------------------------------------------------------------------
(* JSON objects (Python dicts) as functions from keys to values. *)

\* d[k] = v
SetKey(d, k, v) ==
    [x \in (DOMAIN d) \cup {k} |-> IF x = k THEN v ELSE d[x]]

\* d.get(k, default)
Get(d, k, default) == IF k \in DOMAIN d THEN d[k] ELSE default

---------------------------------------------------------------------------
(* Response text as tokens.  kind is one of                                *)
(*   "ws"          a run of whitespace                                      *)
(*   "fence_json"  the seven characters ```json                             *)
(*   "fence"       the three characters ```                                 *)
(*   "prose"       text that is not JSON                                    *)
(*   "json"        a JSON object, val                                       *)
(*   "json_other"  a JSON value that is not an object (a list, a number)    *)

Token(kind, val) == [kind |-> kind, val |-> val]
NoVal == [none |-> TRUE]
Ws == Token("ws", NoVal)
FenceJson == Token("fence_json", NoVal)
Fence == Token("fence", NoVal)
Prose == Token("prose", NoVal)
\* what is left of ```json once its first three characters are cut: "json"
FenceRest == Token("prose", [rest |-> "json"])
JsonOther == Token("json_other", NoVal)
Json(obj) == Token("json", obj)

RECURSIVE LStrip(_)
LStrip(text) ==
    IF text # <<>> /\ Head(text).kind = "ws" THEN LStrip(Tail(text)) ELSE text

RECURSIVE RStrip(_)
RStrip(text) ==
    IF text # <<>> /\ text[Len(text)].kind = "ws"
    THEN RStrip(SubSeq(text, 1, Len(text) - 1))
    ELSE text

\* str.strip()
Strip(text) == RStrip(LStrip(text))

\* result_text = result_text[7:] without the startswith test: seven characters
\* are cut from whatever the text starts with
CutFenceJsonUnguarded(text) ==
    IF text = <<>> THEN text
    ELSE IF Head(text).kind = "fence_json" THEN Tail(text)
    ELSE <<Token("prose", [cut |-> Head(text)])>> \o Tail(text)

\* if result_text.startswith('```json'): result_text = result_text[7:]
CutFenceJson(text) ==
    IF text # <<>> /\ Head(text).kind = "fence_json" THEN Tail(text) ELSE text

\* if result_text.startswith('```'): result_text = result_text[3:]
CutFence(text) ==
    IF text # <<>> /\ Head(text).kind = "fence" THEN Tail(text)
    ELSE IF text # <<>> /\ Head(text).kind = "fence_json"
         THEN <<FenceRest>> \o Tail(text)
    ELSE text

\* if result_text.endswith('```'): result_text = result_text[:-3]
CutFenceEnd(text) ==
    IF text # <<>> /\ text[Len(text)].kind = "fence"
    THEN SubSeq(text, 1, Len(text) - 1)
    ELSE text

\* analyzer.py: "Clean the response - remove markdown code blocks if present"
CleanResponse(text) ==
    Strip(CutFenceEnd(CutFence(CutFenceJson(Strip(text)))))

\* json.loads succeeds: the text is one JSON value, whitespace around it or not
Decodable(text) ==
    LET t == Strip(text)
    IN  Len(t) = 1 /\ t[1].kind \in {"json", "json_other"}

\* json.loads(text), for a Decodable text
JsonLoads(text) == Strip(text)[1]

\* json.dumps(obj): the text a model gives when it repeats a result
JsonDumps(obj) == <<Json(obj)>>

---------------------------------------------------------------------------
(* The outcome of the model call inside analyze.                           *)
(*   kind "raise": generate_content raised err (provider error, timeout)   *)
(*   kind "reply": response.text is text; candidate is the text of         *)
(*                 response.candidates[0].content.parts[0]                 *)

Raise(err) == [kind |-> "raise", err |-> err, text |-> <<>>, candidate |-> <<>>]
Reply(text, candidate) ==
    [kind |-> "reply", err |-> "", text |-> text, candidate |-> candidate]

---------------------------------------------------------------------------
(* analyzer.py, TechnicalDocumentAnalyzer.analyze *)

ZeroSummary ==
    [total_points |-> 0, conforme |-> 0, douteux |-> 0, non_conforme |-> 0]

\* line 159
EmptyResponseError ==
    [error |-> "Réponse vide de l'API",
     global_status |-> "NON_CONFORME",
     points |-> <<>>,
     summary |-> [total_points |-> 0, conforme |-> 0, douteux |-> 0,
                  non_conforme |-> 0,
                  recommendations |-> "Erreur: réponse vide"]]

\* line 186; raw_response is the cleaned text, "N/A" when it is empty
JsonDecodeError(result_text) ==
    [error |-> "Format de réponse invalide: JSONDecodeError",
     raw_response |-> IF result_text # <<>> THEN result_text ELSE <<Token("prose", [rest |-> "N/A"])>>,
     global_status |-> "NON_CONFORME",
     points |-> <<>>,
     summary |-> ZeroSummary]

\* line 190
ExceptionError(err) ==
    [error |-> err,
     traceback |-> "traceback",
     global_status |-> "NON_CONFORME",
     points |-> <<>>,
     summary |-> ZeroSummary]

\* lines 147-156: response.text, else the first candidate's first part, else None
ResultText(resp) ==
    IF resp.text # <<>> THEN resp.text ELSE resp.candidate

\* lines 173-179: "Validate required fields"
ValidateRequiredFields(obj) ==
    LET r1 == IF "points" \notin DOMAIN obj THEN SetKey(obj, "points", <<>>) ELSE obj
        r2 == IF "summary" \notin DOMAIN r1 THEN SetKey(r1, "summary", ZeroSummary) ELSE r1
        r3 == IF "global_status" \notin DOMAIN r2
              THEN SetKey(r2, "global_status", "NON_CONFORME") ELSE r2
    IN  r3

\* an exception that leaves a function instead of a value
Raised(err) == [raised |-> err]
IsRaised(r) == "raised" \in DOMAIN r

\* the analysis of a response the model did give (lines 147-182)
AnalyzeReply(resp) ==
    IF ResultText(resp) = <<>> THEN EmptyResponseError
    ELSE LET result_text == CleanResponse(ResultText(resp))
         IN  IF ~Decodable(result_text) THEN JsonDecodeError(result_text)
             ELSE LET decoded == JsonLoads(result_text)
                  IN  IF decoded.kind # "json"
                      \* result["points"] = [] on a list, a string, a number
                      THEN ExceptionError("TypeError")
                      ELSE ValidateRequiredFields(decoded.val)

\* analyze if "except Exception" (line 187) were not there
analyzeUnhandled(resp) ==
    IF resp.kind = "raise" THEN Raised(resp.err) ELSE AnalyzeReply(resp)

\* lines 136-190
analyze(resp) ==
    IF resp.kind = "raise" THEN ExceptionError(resp.err) ELSE AnalyzeReply(resp)

---------------------------------------------------------------------------
(* pdf_analyzer_v2/analyzer.py, TechnicalDocumentAnalyzer.analyze *)

\* lines 148-159
analyze_v2(resp) ==
    IF resp.kind = "raise" THEN [error |-> resp.err]
    ELSE IF ~Decodable(resp.text)
         THEN [error |-> "Format de réponse invalide", raw_response |-> resp.text]
    ELSE LET decoded == JsonLoads(resp.text)
         IN  \* line 151: result['summary']['total_points']
             IF decoded.kind # "json" THEN [error |-> "TypeError"]
             ELSE IF "summary" \notin DOMAIN decoded.val THEN [error |-> "'summary'"]
             ELSE IF "total_points" \notin DOMAIN decoded.val.summary
                  THEN [error |-> "'total_points'"]
             ELSE decoded.val

\* the analyze of the deployed module
Analyzer(i, resp) == IF i = "v1" THEN analyze(resp) ELSE analyze_v2(resp)

---------------------------------------------------------------------------
(* The responses a model can give: bounded families of the response schema *)
(* of generate_prompt (analyzer.py lines 100-123).                          *)

Point(name, status, value_found, criticity, recommendation) ==
    [name |-> name, status |-> status, value_found |-> value_found,
     comment |-> IF status = "CONFORME" THEN Null ELSE "explication",
     criticity |-> criticity, recommendation |-> recommendation]

\* the recommendation the prompt asks the model to give (lines 83-86)
PromptRecommendation(status, criticity) ==
    IF status = "CONFORME" THEN "VALIDER"
    ELSE IF status = "NON_CONFORME" /\ criticity = "Critique" THEN "REFUSER"
    ELSE "DEMANDER_COMPLEMENT"

\* a point name no template has
UnknownName == "Point inconnu"

\* evidence texts: a value, and a marker of absence
ValuesFound == {"valeur extraite", "non trouvé"}

Min(a, b) == IF a < b THEN a ELSE b

\* points lists that answer the first n control points in template order, every
\* status and every stated criticity, with the recommendation the prompt asks for
OrderedPointLists(t) ==
    UNION {
      { [i \in 1..n |->
            Point(t.control_points[i].name, f[i][1], "valeur extraite", f[i][2],
                  PromptRecommendation(f[i][1], f[i][2]))]
        : f \in [1..n -> Statuses \X CriticityLevel] }
      : n \in 0..Min(MaxPoints, Len(t.control_points)) }

\* any answer the model may state about the first control point
DetailPoints(t) ==
    { Point(t.control_points[1].name, s, v, c, r) :
        s \in Statuses, v \in ValuesFound,
        c \in CriticityLevel, r \in Recommendations }

\* a conforming answer under any of these names: the first two control points
\* (so that entries can be repeated or out of order) and a name of no template
NamedPoints(t) ==
    { Point(n, "CONFORME", "valeur extraite", "Mineur", "VALIDER") :
        n \in {t.control_points[1].name, t.control_points[2].name, UnknownName} }

DetailPointLists(t) ==
    UNION { [1..n -> DetailPoints(t)] \cup [1..n -> NamedPoints(t)]
            : n \in 0..MaxDetailPoints }

\* the summary that counts the points given
SummaryOf(points) ==
    LET count(s) == Cardinality({i \in 1..Len(points) : points[i].status = s})
    IN  [total_points |-> Len(points),
         conforme |-> count("CONFORME"),
         douteux |-> count("DOUTEUX"),
         non_conforme |-> count("NON_CONFORME"),
         critical_issues |->
            SelectSeq([i \in 1..Len(points) |->
                          IF points[i].criticity = "Critique"
                             /\ points[i].status # "CONFORME"
                          THEN points[i].name ELSE ""],
                      LAMBDA x : x # ""),
         recommendations |-> "recommandation globale"]

\* an optional value: <<>> when the key is missing, <<v>> when it is v
Opt(S) == {<<>>} \cup {<<v>> : v \in S}

\* the JSON object of the response schema, with the keys that are given
Payload(t, gs, gr, pts, sm) ==
    LET keys == {"document_type", "analysis_date"}
                \cup (IF gs # <<>> THEN {"global_status"} ELSE {})
                \cup (IF gr # <<>> THEN {"global_recommendation"} ELSE {})
                \cup (IF pts # <<>> THEN {"points"} ELSE {})
                \cup (IF sm # <<>> THEN {"summary"} ELSE {})
    IN  [k \in keys |->
            CASE k = "document_type" -> t.name
              [] k = "analysis_date" -> "date du jour"
              [] k = "global_status" -> gs[1]
              [] k = "global_recommendation" -> gr[1]
              [] k = "points" -> pts[1]
              [] k = "summary" -> sm[1]]

\* every global field given or missing, points in template order
VerdictPayloads(t) ==
    { Payload(t, gs, gr, <<pts>>, <<SummaryOf(pts)>>) :
        gs \in Opt(GlobalStatuses), gr \in Opt(Recommendations),
        pts \in OrderedPointLists(t) }

\* points that vary in every field
DetailPayloads(t) ==
    { Payload(t, <<"PARTIELLEMENT_CONFORME">>, <<"DEMANDER_COMPLEMENT">>,
              <<pts>>, <<SummaryOf(pts)>>) :
        pts \in DetailPointLists(t) }

\* a response with every key, one conforming point
FullPayload(t) ==
    LET p == <<Point(t.control_points[1].name, "CONFORME", "valeur extraite",
                     t.control_points[1].criticity, "VALIDER")>>
    IN  Payload(t, <<"CONFORME">>, <<"VALIDER">>, <<p>>, <<SummaryOf(p)>>)

\* a response with none of the four keys analyze reads
EmptyPayload(t) == Payload(t, <<>>, <<>>, <<>>, <<>>)

\* payloads with keys missing
SamplePayloads(t) ==
    LET p == <<Point(t.control_points[1].name, "CONFORME", "valeur extraite",
                     t.control_points[1].criticity, "VALIDER")>>
    IN  { FullPayload(t), EmptyPayload(t),
          Payload(t, <<"CONFORME">>, <<"VALIDER">>, <<p>>, <<>>),
          Payload(t, <<"CONFORME">>, <<"VALIDER">>, <<>>, <<SummaryOf(p)>>),
          Payload(t, <<"CONFORME">>, <<"VALIDER">>, <<p>>,
                  <<[conforme |-> 1]>>) }

SeqsUpTo(S, n) == UNION { [1..k -> S] : k \in 0..n }

\* texts: tokens, then a body or none, then tokens
WrappedTexts(t) ==
    LET bodies == {<<>>, <<Prose>>, <<JsonOther>>,
                   <<Json(FullPayload(t))>>, <<Json(EmptyPayload(t))>>}
    IN  { pre \o b \o post :
            pre \in SeqsUpTo({Ws, FenceJson, Fence, Prose}, MaxPrefix),
            b \in bodies,
            post \in SeqsUpTo({Ws, Fence, Prose}, MaxSuffix) }

\* a key of the response schema with its words capitalized, and back
CapitalizeKey(k) ==
    CASE k = "document_type" -> "Document_Type"
      [] k = "analysis_date" -> "Analysis_Date"
      [] k = "global_status" -> "Global_Status"
      [] k = "global_recommendation" -> "Global_Recommendation"
      [] k = "points" -> "Points"
      [] k = "summary" -> "Summary"
      [] OTHER -> k
SchemaKey(k) ==
    CASE k = "Document_Type" -> "document_type"
      [] k = "Analysis_Date" -> "analysis_date"
      [] k = "Global_Status" -> "global_status"
      [] k = "Global_Recommendation" -> "global_recommendation"
      [] k = "Points" -> "points"
      [] k = "Summary" -> "summary"
      [] OTHER -> k

\* the object with its top-level keys capitalized: the same values under keys
\* that differ from the schema's in letter case only
CapitalizedPayload(obj) ==
    [K \in {CapitalizeKey(k) : k \in DOMAIN obj} |-> obj[SchemaKey(K)]]

\* analyze_pdf.py line 162: the points for which no mention is Conforme
AbsenceIsConforme == {"Corps Etranger", "VSM", "Aiguilles"}

\* a response that reports, for each of these points, that the document does
\* not mention it, with the status that rule 4 gives to missing information
AbsentMentionPayloads(t) ==
    { LET p == <<Point(n, "NON_CONFORME", "aucune mention", "Critique", "REFUSER")>>
      IN  Payload(t, <<"NON_CONFORME">>, <<"REFUSER">>, <<p>>, <<SummaryOf(p)>>)
      : n \in AbsenceIsConforme }

Responses(t) ==
    {Raise("provider error"), Raise("timeout")}
    \cup {Reply(<<Json(CapitalizedPayload(FullPayload(t)))>>, <<>>)}
    \cup {Reply(<<Json(p)>>, <<>>) : p \in AbsentMentionPayloads(t)}
    \cup {Reply(<<Json(p)>>, <<>>) : p \in VerdictPayloads(t) \cup DetailPayloads(t)}
    \cup {Reply(<<Json(p)>>, <<>>) : p \in SamplePayloads(t)}
    \cup {Reply(text, <<>>) : text \in WrappedTexts(t)}
    \cup {Reply(<<>>, <<Json(p)>>) : p \in SamplePayloads(t)}

---------------------------------------------------------------------------
(* The state machine. *)

Impls == {"v1", "v2"}

NoResponse == Raise("none")
NoResult == [none |-> TRUE]
NoCall == [response |-> NoResponse, result |-> NoResult]
NoCallYet == [op |-> "none", arg |-> NoResult, ret |-> NoResult]

\* nothing analyzed yet
NoAnalysis ==
    /\ pc = "idle"
    /\ response = NoResponse
    /\ result = NoResult
    /\ prev = NoCall

\* the registry as config.py builds it, no function called yet
RegistryAtStartup ==
    /\ registry = TEMPLATES
    /\ call = NoCallYet

\* no batch started
NoBatch ==
    /\ batch_pc = "off"
    /\ files = <<>>
    /\ documents = <<>>
    /\ doc_responses = <<>>
    /\ results = <<>>
    /\ batch_report = NoResult

Init ==
    /\ impl \in Impls
    /\ template \in DOMAIN TEMPLATES
    /\ NoAnalysis
    /\ RegistryAtStartup
    /\ NoBatch

\* analyze(text, template): the model call gives resp
Call(resp) ==
    /\ prev' = [response |-> response, result |-> result]
    /\ response' = resp
    /\ result' = Analyzer(impl, resp)
    /\ UNCHANGED <<impl, template, registry_vars, batch_vars>>

\* a first analyze call; the model gives any response
Analyze ==
    /\ pc = "idle"
    /\ pc' = "analyzed"
    /\ \E resp \in Responses(TEMPLATES[template]) : Call(resp)

\* analyze again, the model giving the same response (or raising again)
AnalyzeAgain ==
    /\ pc = "analyzed"
    /\ pc' = "repeated"
    /\ Call(response)

\* analyze again, the model giving back the previous result as JSON
AnalyzeResult ==
    /\ pc = "analyzed"
    /\ pc' = "repeated"
    /\ Call(Reply(JsonDumps(result), <<>>))

Next == Analyze \/ AnalyzeAgain \/ AnalyzeResult

Spec == Init /\ [][Next]_vars

---------------------------------------------------------------------------
(* The decision rules the prompts state, pdf_analyzer-main/analyze_pdf.py. *)

\* RÈGLES ABSOLUES 2 and 6: the recommendation of a point
RecommendationRule(status, criticity) ==
    IF status = "CONFORME" THEN "VALIDER"
    ELSE IF criticity = "Critique" THEN "REFUSER"
    ELSE "DEMANDER_COMPLEMENT"

\* a point of the given criticity that is not CONFORME
AnyFail(points, criticity) ==
    \E i \in 1..Len(points) :
        points[i].criticity = criticity /\ points[i].status # "CONFORME"

\* ALGORYTHME DE DÉCISION (strict)
GlobalDecision(points) ==
    IF AnyFail(points, "Critique") THEN "REFUSER"
    ELSE IF AnyFail(points, "Majeur") THEN "DEMANDER_COMPLEMENT"
    ELSE "VALIDER"

\* RÈGLES ABSOLUES 5: the evidence texts that say the information is absent
AbsenceMarkers == {"non trouvé", "aucune mention", "absent"}

---------------------------------------------------------------------------
(* What the claims read. *)

Returned == pc # "idle"
Succeeded == Returned /\ "error" \notin DOMAIN result
ResultPoints == Get(result, "points", <<>>)
ActiveTemplate == TEMPLATES[template]

\* the "points" of the JSON object in the model's response, if it has one
ResponsePoints(resp) ==
    LET toks == ResultText(resp)
        objs == {i \in 1..Len(toks) : toks[i].kind = "json"}
    IN  IF objs = {} THEN <<>>
        ELSE Get(toks[CHOOSE i \in objs : TRUE].val, "points", <<>>)

\* the model call failed: it raised, gave nothing, or gave no JSON value
ModelFailed(resp) ==
    \/ resp.kind = "raise"
    \/ \A i \in 1..Len(ResultText(resp)) :
          ResultText(resp)[i].kind \notin {"json", "json_other"}

---------------------------------------------------------------------------
(* C1: the recommendation of every point of every returned result is the   *)
(* fixed function of (status, criticity): VALIDER when CONFORME, REFUSER   *)
(* when not CONFORME and Critique, DEMANDER_COMPLEMENT otherwise, whatever *)
(* the model stated.                                                       *)
C1_RecommendationFollowsRule ==
    Returned =>
        \A i \in 1..Len(ResultPoints) :
            ResultPoints[i].recommendation =
                RecommendationRule(ResultPoints[i].status, ResultPoints[i].criticity)

(* C2: global_recommendation is REFUSER if and only if some point of the   *)
(* result has criticity Critique and a status other than CONFORME.         *)
C2_RefuserIffCriticalFail ==
    Returned =>
        (Get(result, "global_recommendation", Null) = "REFUSER"
            <=> AnyFail(ResultPoints, "Critique"))

(* C3: when no Critique point fails, global_recommendation is              *)
(* DEMANDER_COMPLEMENT if some Majeur point is not CONFORME and VALIDER    *)
(* otherwise.                                                              *)
C3_GlobalDecisionByPriority ==
    (Succeeded /\ ~AnyFail(ResultPoints, "Critique")) =>
        Get(result, "global_recommendation", Null) = GlobalDecision(ResultPoints)

(* C4: global_status of a result without error is CONFORME when all points *)
(* are CONFORME, NON_CONFORME when none is, PARTIELLEMENT_CONFORME         *)
(* otherwise (stated here for results with at least one point).            *)
C4_GlobalStatusFromStatuses ==
    (Succeeded /\ ResultPoints # <<>>) =>
        LET n == Cardinality({i \in 1..Len(ResultPoints) :
                                 ResultPoints[i].status = "CONFORME"})
        IN  Get(result, "global_status", Null) =
                IF n = Len(ResultPoints) THEN "CONFORME"
                ELSE IF n = 0 THEN "NON_CONFORME"
                ELSE "PARTIELLEMENT_CONFORME"

(* C5: a successful result has as many points as the template has control *)
(* points.                                                                 *)
C5_Completeness ==
    Succeeded => Len(ResultPoints) = Len(ActiveTemplate.control_points)

(* C6: a control point the response has no entry for is in the result with *)
(* status NON_CONFORME, its own criticity and the comment "missing from    *)
(* model response".                                                        *)
C6_MissingPointSynthesized ==
    Succeeded =>
        \A k \in 1..Len(ActiveTemplate.control_points) :
            LET cp == ActiveTemplate.control_points[k]
                given == ResponsePoints(response)
            IN  (\A i \in 1..Len(given) : given[i].name # cp.name) =>
                    \E j \in 1..Len(ResultPoints) :
                        /\ ResultPoints[j].name = cp.name
                        /\ ResultPoints[j].status = "NON_CONFORME"
                        /\ ResultPoints[j].criticity = cp.criticity
                        /\ ResultPoints[j].comment = "missing from model response"

(* C7: every point of a returned result is named after a control point of  *)
(* the active template.                                                    *)
C7_OnlyTemplatePoints ==
    Returned =>
        \A i \in 1..Len(ResultPoints) :
            ResultPoints[i].name \in ControlPointNames(ActiveTemplate)

(* C8: no point of a returned result is CONFORME while its value_found is  *)
(* a marker of absence.                                                    *)
C8_AbsentEvidenceNotConforme ==
    Returned =>
        \A i \in 1..Len(ResultPoints) :
            ~(/\ ResultPoints[i].status = "CONFORME"
              /\ ResultPoints[i].value_found \in AbsenceMarkers)

(* C9: idempotence of analyzer.py's analyze: the same model response gives *)
(* the same result again, and a response that is a returned result as JSON *)
(* gives that result back unchanged.                                       *)
C9_Idempotent ==
    (impl = "v1" /\ pc = "repeated") =>
        /\ response = prev.response => result = prev.result
        /\ response = Reply(JsonDumps(prev.result), <<>>) => result = prev.result

\* a fenced response with points was analyzed and its result analyzed again
C9_Witness ==
    /\ impl = "v1" /\ pc = "repeated"
    /\ response = Reply(JsonDumps(prev.result), <<>>)
    /\ response # prev.response
    /\ Len(prev.response.text) > 1
    /\ "error" \notin DOMAIN result
    /\ ResultPoints # <<>>

(* C10: every failure of analyze, in both analyzers, returns a result with *)
(* an "error" key, global_status NON_CONFORME, no points and a summary     *)
(* whose four counts are 0.                                                *)
C10_ErrorShape ==
    (Returned /\ ModelFailed(response)) =>
        /\ "error" \in DOMAIN result
        /\ Get(result, "global_status", Null) = "NON_CONFORME"
        /\ "points" \in DOMAIN result /\ result.points = <<>>
        /\ "summary" \in DOMAIN result
        /\ \A k \in {"total_points", "conforme", "douteux", "non_conforme"} :
              Get(result.summary, k, -1) = 0

---------------------------------------------------------------------------
\* the keys of the JSON object in the model's response; none when it has none
ResponseKeys(resp) ==
    LET toks == ResultText(resp)
        objs == {i \in 1..Len(toks) : toks[i].kind = "json"}
    IN  IF objs = {} THEN {}
        ELSE DOMAIN toks[CHOOSE i \in objs : TRUE].val

\* the response decodes to an object that lacks one of the three verdict keys
LacksVerdictKey(resp) ==
    /\ ~ModelFailed(resp)
    /\ {"global_status", "global_recommendation", "points"} \ ResponseKeys(resp) # {}

(* C11: when the model call failed, its response could not be decoded, or  *)
(* the decoded response lacks global_status, global_recommendation or      *)
(* points, the returned result has neither global_status CONFORME nor      *)
(* global_recommendation VALIDER.                                          *)
C11_FailureNeverConforme ==
    (Returned /\ (ModelFailed(response) \/ LacksVerdictKey(response))) =>
        /\ Get(result, "global_status", Null) # "CONFORME"
        /\ Get(result, "global_recommendation", Null) # "VALIDER"

---------------------------------------------------------------------------
(* Batch analysis: app.py render_batch_analysis and analyzer.py            *)
(* BatchAnalyzer.                                                          *)

EmptyDict == [k \in {} |-> Null]

\* an uploaded PDF; readable tells whether ocr_engine.extract_text returns
\* (pdf_analyzer_v2/ocr_engine.py 183-185 raises when it cannot)
UploadedFile(i, readable) ==
    [name |-> "fiche_" \o ToString(i) \o ".pdf", size |-> i, readable |-> readable]

Uploads ==
    UNION { { [i \in 1..n |-> UploadedFile(i, r[i])] : r \in [1..n -> BOOLEAN] }
            : n \in 1..MaxDocs }

\* app.py 439-450: the document of one file, none when extract_text raised
ExtractedDocument(file) ==
    IF file.readable
    THEN <<[filename |-> file.name, text |-> "texte de " \o file.name,
            metadata |-> [size |-> file.size]]>>
    ELSE <<>>

RECURSIVE ExtractTexts(_)
\* app.py 434-452: the OCR loop over the uploaded files
ExtractTexts(fs) ==
    IF fs = <<>> THEN <<>>
    ELSE ExtractedDocument(Head(fs)) \o ExtractTexts(Tail(fs))

\* documents given to analyze_multiple by a caller other than app.py: "text" only
BareDocuments ==
    { [i \in 1..n |-> [text |-> "texte " \o ToString(i)]] : n \in 0..MaxBare }

\* what the model may answer for a document of a batch
BatchResponses(t) ==
    LET cp1 == t.control_points[1].name
        cp2 == t.control_points[2].name
        ok(n) == Point(n, "CONFORME", "valeur extraite", "Critique", "VALIDER")
        ko(n) == Point(n, "NON_CONFORME", "non trouvé", "Critique", "REFUSER")
        partiel == <<ko(cp1), ok(cp2)>>
        refus == <<ko(cp1), ko(cp2)>>
    IN  { Raise("timeout"),
          Reply(<<Prose>>, <<>>),
          Reply(<<Json(FullPayload(t))>>, <<>>),
          Reply(<<Json(Payload(t, <<"PARTIELLEMENT_CONFORME">>, <<"DEMANDER_COMPLEMENT">>,
                               <<partiel>>, <<SummaryOf(partiel)>>))>>, <<>>),
          Reply(<<Json(Payload(t, <<"NON_CONFORME">>, <<"REFUSER">>,
                               <<refus>>, <<SummaryOf(refus)>>))>>, <<>>),
          \* a status outside the schema (config.py Status.CONFORME.value), no summary
          Reply(<<Json(Payload(t, <<"Conforme">>, <<"VALIDER">>, <<<<ok(cp1)>>>>, <<>>))>>,
                <<>>) }

\* the loop body if enumerate counted from 0
AnalyzedDocumentFromZero(i, doc, res) ==
    SetKey(SetKey(res, "filename",
                  Get(doc, "filename", "document_" \o ToString(i - 1))),
           "metadata", Get(doc, "metadata", EmptyDict))

\* analyzer.py 236-241: the loop body of analyze_multiple for document i
AnalyzedDocument(i, doc, res) ==
    SetKey(SetKey(res, "filename", Get(doc, "filename", "document_" \o ToString(i))),
           "metadata", Get(doc, "metadata", EmptyDict))

\* the runs of neighbouring results that have the status
CountStatusRuns(rs, status) ==
    Cardinality({i \in 1..Len(rs) :
                    /\ Get(rs[i], "global_status", Null) = status
                    /\ (i = 1 \/ Get(rs[i - 1], "global_status", Null) # status)})

\* r.get("global_status") == status, counted over the results (lines 248-249)
CountStatus(rs, status) ==
    Cardinality({i \in 1..Len(rs) : Get(rs[i], "global_status", Null) = status})

\* lines 253-256: the critical issues of one result, none without the keys
IssuesOf(r) ==
    IF "summary" \in DOMAIN r /\ "critical_issues" \in DOMAIN r.summary
    THEN r.summary.critical_issues ELSE <<>>

RECURSIVE all_critical_issues(_)
\* lines 252-256
all_critical_issues(rs) ==
    IF rs = <<>> THEN <<>> ELSE IssuesOf(Head(rs)) \o all_critical_issues(Tail(rs))

\* set(l)
SetOf(l) == {l[i] : i \in 1..Len(l)}

\* list(s): the elements of s once each, in an order the runtime chooses
ListsOf(S) ==
    {l \in [1..Cardinality(S) -> S] : SetOf(l) = S}

\* the issues as they are collected, duplicates kept
CriticalIssuesCollected(rs) == {all_critical_issues(rs)}

\* line 267: list(set(all_critical_issues))
CriticalIssuesSummaries(rs) == ListsOf(SetOf(all_critical_issues(rs)))

\* a rate as the exact fraction num/den
Rate(num, den) == [num |-> num, den |-> den]

\* a rate without the factor 100
ConformityFraction(conforme_count, total_docs) ==
    IF total_docs > 0 THEN Rate(conforme_count, total_docs) ELSE Rate(0, 1)

\* line 265: (conforme_count / total_docs * 100) if total_docs > 0 else 0
ConformityRate(conforme_count, total_docs) ==
    IF total_docs > 0 THEN Rate(conforme_count * 100, total_docs) ELSE Rate(0, 1)

\* the results whose global_status is PARTIELLEMENT_CONFORME, counted
PartialCountByStatus(rs) == CountStatus(rs, "PARTIELLEMENT_CONFORME")

\* line 250: partial_count = total_docs - conforme_count - non_conforme_count
PartialCount(rs) ==
    Len(rs) - CountStatus(rs, "CONFORME") - CountStatus(rs, "NON_CONFORME")

\* lines 247-269, critical_issues_summary being the list the runtime built
generate_batch_report(rs, issues) ==
    LET total_docs == Len(rs)
        conforme_count == CountStatus(rs, "CONFORME")
        non_conforme_count == CountStatus(rs, "NON_CONFORME")
        partial_count == PartialCount(rs)
    IN  [batch_summary |->
            [total_documents |-> total_docs,
             conforme |-> conforme_count,
             partiellement_conforme |-> partial_count,
             non_conforme |-> non_conforme_count,
             conformity_rate |-> ConformityRate(conforme_count, total_docs)],
         critical_issues_summary |-> issues,
         documents |-> rs]

\* results with r put first
PrependResult(rs, r) == <<r>> \o rs

\* line 241: results.append(result)
AppendResult(rs, r) == Append(rs, r)

InitBatch ==
    /\ impl \in Impls
    /\ template \in DOMAIN TEMPLATES
    /\ NoAnalysis
    /\ RegistryAtStartup
    /\ NoBatch

\* analyze_multiple is entered with docs: its loop runs unless docs is empty
EnterAnalyzeMultiple(docs) ==
    /\ documents' = docs
    /\ batch_pc' = IF docs = <<>> THEN "analyzed" ELSE "analyze"
    /\ UNCHANGED <<impl, template, analysis_vars, registry_vars,
                   doc_responses, results, batch_report>>

\* app.py 426-458: the button is pressed on the uploaded files, each file goes
\* through OCR, and the documents extracted are given to analyze_multiple
UploadFiles ==
    /\ batch_pc = "off"
    /\ \E fs \in Uploads :
          /\ files' = fs
          /\ EnterAnalyzeMultiple(ExtractTexts(fs))

\* analyze_multiple called on documents that carry only their text
SubmitDocuments ==
    /\ batch_pc = "off"
    /\ files' = files
    /\ \E docs \in BareDocuments : EnterAnalyzeMultiple(docs)

\* analyzer.py 234-241: one turn of the loop; an exception leaving analyze
\* leaves analyze_multiple too, which has no handler
AnalyzeDocument ==
    /\ batch_pc = "analyze"
    /\ \E resp \in BatchResponses(TEMPLATES[template]) :
          LET i == Len(results) + 1
              res == Analyzer(impl, resp)
          IN  /\ doc_responses' = Append(doc_responses, resp)
              /\ IF IsRaised(res)
                 THEN /\ results' = results
                      /\ batch_pc' = "raised"
                 ELSE /\ results' = AppendResult(results,
                                        AnalyzedDocument(i, documents[i], res))
                      /\ batch_pc' = IF i = Len(documents) THEN "analyzed"
                                                           ELSE "analyze"
    /\ UNCHANGED <<impl, template, analysis_vars, registry_vars,
                   files, documents, batch_report>>

\* analyzer.py 245-269 on the results analyze_multiple returned
GenerateBatchReport ==
    /\ batch_pc = "analyzed"
    /\ batch_pc' = "reported"
    /\ \E issues \in CriticalIssuesSummaries(results) :
          batch_report' = generate_batch_report(results, issues)
    /\ UNCHANGED <<impl, template, analysis_vars, registry_vars,
                   files, documents, doc_responses, results>>

\* results lists as analyze_multiple makes them, in any order
ResultLists(i, t) ==
    SeqsUpTo({ AnalyzedDocument(1, [text |-> "texte"], Analyzer(i, resp)) :
                 resp \in BatchResponses(t) },
             MaxResults)

\* generate_batch_report is about to be called on a results list
InitReport ==
    /\ impl \in Impls
    /\ template \in DOMAIN TEMPLATES
    /\ NoAnalysis
    /\ RegistryAtStartup
    /\ batch_pc = "analyzed"
    /\ files = <<>>
    /\ documents = <<>>
    /\ doc_responses = <<>>
    /\ results \in ResultLists(impl, TEMPLATES[template])
    /\ batch_report = NoResult

NextReport == GenerateBatchReport

SpecReport == InitReport /\ [][NextReport]_vars

NextBatch == UploadFiles \/ SubmitDocuments \/ AnalyzeDocument \/ GenerateBatchReport

SpecBatch == InitBatch /\ [][NextBatch]_vars

---------------------------------------------------------------------------
(* What the batch claims read. *)

BatchReturned == batch_pc \in {"analyzed", "reported"}
Reported == batch_pc = "reported"
GlobalStatusOf(r) == Get(r, "global_status", Null)
IsErrorResult(r) == "error" \in DOMAIN r

(* C12: when OCR fails on one of the N files of a batch, the batch is not  *)
(* aborted and the document stays in it: the report's "documents" list has *)
(* N entries, the entry of the failing file has global_status NON_CONFORME,*)
(* no points and an "error" field, and the entries of the other files are  *)
(* what analyze_multiple made of them.                                     *)
C12_OcrFailureKeepsDocument ==
    (Reported /\ files # <<>>) =>
        /\ Len(batch_report.documents) = Len(files)
        /\ \A i \in 1..Len(files) :
              LET entry == batch_report.documents[i]
              IN  /\ Get(entry, "filename", Null) = files[i].name
                  /\ ~files[i].readable =>
                        /\ GlobalStatusOf(entry) = "NON_CONFORME"
                        /\ Get(entry, "points", Null) = <<>>
                        /\ IsErrorResult(entry)

(* C13: in a batch, a document whose model call fails, times out or gives  *)
(* an undecodable response gets an error result, and analyze_multiple goes *)
(* on: it never raises, it has one result per document analyzed so far and *)
(* returns exactly one result per input document.                          *)
C13_ModelFailureIsolated ==
    /\ batch_pc # "raised"
    /\ Len(results) = Len(doc_responses)
    /\ batch_pc = "analyze" => Len(results) < Len(documents)
    /\ BatchReturned => Len(results) = Len(documents)
    /\ \A i \in 1..Len(results) :
          ModelFailed(doc_responses[i]) =>
              /\ IsErrorResult(results[i])
              /\ impl = "v1" =>
                    /\ GlobalStatusOf(results[i]) = "NON_CONFORME"
                    /\ results[i].points = <<>>

\* a batch of three or more returned, a timeout and an undecodable response
\* in it, and the last document analyzed without error
C13_Witness ==
    /\ BatchReturned
    /\ Len(results) >= 3
    /\ \E i, j \in 1..(Len(results) - 1) :
          /\ doc_responses[i].kind = "raise"
          /\ doc_responses[j].kind = "reply" /\ ModelFailed(doc_responses[j])
    /\ ~IsErrorResult(results[Len(results)])

(* C14: in the batch summary, conforme, partiellement_conforme and         *)
(* non_conforme are the numbers of documents whose global_status is        *)
(* CONFORME, PARTIELLEMENT_CONFORME and NON_CONFORME, error results being  *)
(* counted under non_conforme.                                             *)
C14_CountsByStatus ==
    Reported =>
        LET s == batch_report.batch_summary
            n(status) == Cardinality({i \in 1..Len(results) :
                                         GlobalStatusOf(results[i]) = status})
            errors == {i \in 1..Len(results) : IsErrorResult(results[i])}
        IN  /\ s.conforme = n("CONFORME")
            /\ s.partiellement_conforme = n("PARTIELLEMENT_CONFORME")
            /\ s.non_conforme = n("NON_CONFORME")
            /\ \A i \in errors : GlobalStatusOf(results[i]) = "NON_CONFORME"

(* C15: the conformity rate of a batch report is conforme / total x 100,   *)
(* it is 0 for a batch without documents and 75 for four documents of      *)
(* which three are CONFORME, and it lies between 0 and 100.                *)
C15_ConformityRate ==
    Reported =>
        LET rate == batch_report.batch_summary.conformity_rate
            total == Len(results)
            conforme == Cardinality({i \in 1..total :
                                        GlobalStatusOf(results[i]) = "CONFORME"})
        IN  /\ rate.den > 0
            /\ total = 0 => rate.num = 0
            /\ total > 0 => rate.num * total = conforme * 100 * rate.den
            /\ (total = 4 /\ conforme = 3) => rate.num = 75 * rate.den
            /\ 0 <= rate.num /\ rate.num <= 100 * rate.den

\* a report on four documents, three of them CONFORME
C15_Witness ==
    /\ Reported
    /\ Len(results) = 4
    /\ Cardinality({i \in 1..4 : GlobalStatusOf(results[i]) = "CONFORME"}) = 3

(* C16: critical_issues_summary holds each critical issue of each          *)
(* document's summary.critical_issues once and nothing else; a document    *)
(* without "summary" or without "critical_issues" adds nothing and the     *)
(* report is still made.                                                   *)
C16_CriticalIssuesUnion ==
    Reported =>
        LET l == batch_report.critical_issues_summary
            with == {i \in 1..Len(results) :
                        /\ "summary" \in DOMAIN results[i]
                        /\ "critical_issues" \in DOMAIN results[i].summary}
            issues(i) == results[i].summary.critical_issues
        IN  /\ SetOf(l) = UNION {SetOf(issues(i)) : i \in with}
            /\ \A j, k \in 1..Len(l) : l[j] = l[k] => j = k

\* a report on documents of which two share a critical issue and one has no
\* summary, or a summary without critical_issues
C16_Witness ==
    /\ Reported
    /\ \E i, j \in 1..Len(results) :
          /\ i # j
          /\ IssuesOf(results[i]) # <<>>
          /\ SetOf(IssuesOf(results[i])) \subseteq SetOf(IssuesOf(results[j]))
    /\ \E i \in 1..Len(results) :
          \/ "summary" \notin DOMAIN results[i]
          \/ "critical_issues" \notin DOMAIN results[i].summary
    /\ Len(batch_report.critical_issues_summary) = 2

(* C17: the results of a batch, and the "documents" list of its report,    *)
(* are in the order of the input documents: entry i is the result of the   *)
(* analysis of document i.                                                 *)
C17_DocumentsInInputOrder ==
    /\ \A i \in 1..Len(results) :
          /\ i <= Len(documents) /\ i <= Len(doc_responses)
          /\ results[i].filename =
                Get(documents[i], "filename", "document_" \o ToString(i))
          /\ results[i] =
                AnalyzedDocument(i, documents[i], Analyzer(impl, doc_responses[i]))
    /\ Reported =>
          /\ batch_report.documents = results
          /\ Len(batch_report.documents) = Len(documents)

\* a report on three or more documents whose analyses all differ
C17_Witness ==
    /\ Reported
    /\ Len(batch_report.documents) >= 3
    /\ \A i, j \in 1..Len(results) :
          doc_responses[i] = doc_responses[j] => i = j

(* C18: the aggregate of a batch does not depend on the order of the       *)
(* results: generate_batch_report on any permutation of a results list     *)
(* gives the same batch_summary and the same set of critical issues.       *)
C18_OrderIndependent ==
    Reported =>
        \A p \in Permutations(1..Len(results)) :
            LET permuted == [i \in 1..Len(results) |-> results[p[i]]]
            IN  \A issues \in CriticalIssuesSummaries(permuted) :
                    LET r == generate_batch_report(permuted, issues)
                    IN  /\ r.batch_summary = batch_report.batch_summary
                        /\ SetOf(r.critical_issues_summary) =
                              SetOf(batch_report.critical_issues_summary)

\* a report on three results of three different statuses whose critical
\* issues differ
C18_Witness ==
    /\ Reported
    /\ Len(results) = 3
    /\ {GlobalStatusOf(results[i]) : i \in 1..3} = GlobalStatuses
    /\ \E i, j \in 1..3 : /\ IssuesOf(results[i]) # <<>>
                           /\ IssuesOf(results[j]) # <<>>
                           /\ IssuesOf(results[i]) # IssuesOf(results[j])

---------------------------------------------------------------------------
(* config.py: the functions on the registry. A name is the sequence of its *)
(* characters.                                                             *)

UpperCase == <<"A", "B", "C", "D", "E", "F", "G", "H", "I", "J", "K", "L", "M",
               "N", "O", "P", "Q", "R", "S", "T", "U", "V", "W", "X", "Y", "Z">>
LowerCase == <<"a", "b", "c", "d", "e", "f", "g", "h", "i", "j", "k", "l", "m",
               "n", "o", "p", "q", "r", "s", "t", "u", "v", "w", "x", "y", "z">>

\* str.lower and str.upper on one character
LowerChar(c) ==
    IF \E i \in DOMAIN UpperCase : UpperCase[i] = c
    THEN LowerCase[CHOOSE i \in DOMAIN UpperCase : UpperCase[i] = c] ELSE c
UpperChar(c) ==
    IF \E i \in DOMAIN LowerCase : LowerCase[i] = c
    THEN UpperCase[CHOOSE i \in DOMAIN LowerCase : LowerCase[i] = c] ELSE c

\* name.lower()
Lower(name) == [i \in 1..Len(name) |-> LowerChar(name[i])]

RECURSIVE Join(_)
\* the string of a sequence of characters
Join(chars) == IF chars = <<>> THEN "" ELSE Head(chars) \o Join(Tail(chars))

\* Python's None
None == [none |-> TRUE]

\* the keys of TEMPLATES (lines 197-201), character by character
RegisteredNames ==
    { <<"a", "g", "r", "o">>,
      <<"e", "l", "e", "c", "t", "r", "o", "n", "i", "q", "u", "e">>,
      <<"c", "h", "i", "m", "i", "e">> }

\* names that are no key, also when lowered
UnregisteredNames ==
    { <<>>, <<"m", "e", "c", "a">>, <<"a", "g", "r">>, <<"a", "g", "r", "o", " ">>,
      <<"c", "h", "i", "m", "i", "e", "s">> }

\* name with the letters at the positions of U in upper case
Recase(name, U) ==
    [i \in 1..Len(name) |-> IF i \in U THEN UpperChar(name[i]) ELSE name[i]]

\* name in lower case with up to MaxUpper letters raised, and in upper case
CaseVariants(name) ==
    { Recase(name, U) : U \in {V \in SUBSET (1..Len(name)) : Cardinality(V) <= MaxUpper} }
    \cup { Recase(name, 1..Len(name)) }

LookupNames == UNION { CaseVariants(n) : n \in RegisteredNames \cup UnregisteredNames }

\* a lookup that does not lower the name
get_template_exact(name) == Get(registry, Join(name), None)

\* lines 203-205: TEMPLATES.get(name.lower())
get_template(name) == Get(registry, Join(Lower(name)), None)

\* lines 207-209
list_templates == [k \in DOMAIN registry |-> registry[k].description]

\* lines 30-36
DocumentTemplate(name, description, category, control_points) ==
    [name |-> name, description |-> description, category |-> category,
     control_points |-> control_points]

\* lines 211-218
create_custom_template(name, description, category, control_points) ==
    DocumentTemplate(name, description, category, control_points)

\* what callers give create_custom_template: a new category or a registered
\* one, no control points, a new one without synonyms, or those of a template
CustomTemplates ==
    { create_custom_template("Fiche Mécanique", "Analyse de fiches mécaniques",
                             category, control_points) :
        category \in {"meca", "agro"},
        control_points \in { <<>>,
                             <<ControlPoint("Référence pièce", "Critique", <<>>)>>,
                             TEMPLATE_CHIMIE.control_points } }

\* TEMPLATES with the template t registered under its category
TemplatesWith(templates, t) == SetKey(templates, t.category, t)

\* TEMPLATES after create_custom_template returned t: the function builds the
\* DocumentTemplate and does not write to TEMPLATES (lines 213-218)
TemplatesAfterCreate(templates, t) == templates

\* analyzer.py 47-57: the text of the control points in the prompt
generate_prompt(t) ==
    [document |-> t.name,
     points_text |->
        [i \in 1..Len(t.control_points) |->
            LET point == t.control_points[i]
            IN  [position |-> i,
                 name |-> point.name,
                 criticity |-> point.criticity,
                 synonyms |-> IF point.synonyms # <<>> THEN point.synonyms
                                                      ELSE <<"Aucun">>,
                 required |-> IF point.required THEN "Oui" ELSE "Non"]]]

RegistryCall(op, arg, ret) ==
    /\ call' = [op |-> op, arg |-> arg, ret |-> ret]
    /\ UNCHANGED <<impl, template, analysis_vars, batch_vars>>

GetTemplate ==
    \E name \in LookupNames :
        /\ RegistryCall("get_template", name, get_template(name))
        /\ registry' = registry

ListTemplates ==
    /\ RegistryCall("list_templates", None, list_templates)
    /\ registry' = registry

CreateCustomTemplate ==
    \E t \in CustomTemplates :
        /\ RegistryCall("create_custom_template", t.category, t)
        /\ registry' = TemplatesAfterCreate(registry, t)

\* generate_prompt on a registered template or on a custom one
GeneratePrompt ==
    \E t \in {registry[k] : k \in DOMAIN registry} \cup CustomTemplates :
        /\ RegistryCall("generate_prompt", t.category, generate_prompt(t))
        /\ registry' = registry

NextRegistry == GetTemplate \/ ListTemplates \/ CreateCustomTemplate \/ GeneratePrompt

SpecRegistry == Init /\ [][NextRegistry]_vars

---------------------------------------------------------------------------
(* A session of app.py: the sidebar gets the template of the selected key  *)
(* (lines 196-201), then a batch is analyzed with it.                      *)

\* the characters of a key of TEMPLATES
KeyChars(key) == CHOOSE n \in RegisteredNames : Join(n) = key

\* app.py 201: template = get_template(template_key) was the last call
TemplateSelected ==
    call = [op |-> "get_template", arg |-> KeyChars(template),
            ret |-> registry[template]]

NextSession ==
    \/ (batch_pc = "off" /\ NextRegistry)
    \/ (TemplateSelected /\ NextBatch)

SpecSession == Init /\ [][NextSession]_vars

\* a is b up to the case of its letters
IsCaseVariation(a, b) ==
    /\ Len(a) = Len(b)
    /\ \A i \in 1..Len(a) : a[i] = b[i] \/ a[i] = UpperChar(b[i])

(* C19: get_template returns, for every letter case of a registered key,   *)
(* the template registered under that key, and None for every name that is *)
(* no registered key in any letter case; the registry is the same after    *)
(* the call.                                                               *)
C19_GetTemplateCaseInsensitive ==
    call.op = "get_template" =>
        LET keys == {key \in RegisteredNames : IsCaseVariation(call.arg, key)}
        IN  /\ \A key \in keys : call.ret = TEMPLATES[Join(key)]
            /\ keys = {} => call.ret = None
            /\ registry = TEMPLATES

\* a registered key looked up with upper-case and lower-case letters
C19_Witness ==
    /\ call.op = "get_template"
    /\ call.ret = TEMPLATE_ELECTRONIQUE
    /\ \E i, j \in 1..Len(call.arg) :
          /\ call.arg[i] # LowerChar(call.arg[i])
          /\ call.arg[j] # UpperChar(call.arg[j])

(* C20: whatever calls were made of get_template, list_templates,          *)
(* create_custom_template, generate_prompt, analyze, analyze_multiple and  *)
(* generate_batch_report, the registry has the categories it had at        *)
(* startup and every template has its control points, in their order, with *)
(* their names, criticities and synonyms.                                  *)
C20_RegistryReadOnly ==
    /\ DOMAIN registry = DOMAIN TEMPLATES
    /\ \A k \in DOMAIN TEMPLATES :
          /\ Len(registry[k].control_points) = Len(TEMPLATES[k].control_points)
          /\ \A i \in 1..Len(TEMPLATES[k].control_points) :
                LET now == registry[k].control_points[i]
                    startup == TEMPLATES[k].control_points[i]
                IN  /\ now.name = startup.name
                    /\ now.criticity = startup.criticity
                    /\ now.synonyms = startup.synonyms

\* a batch reported in a session that selected its template
C20_Witness ==
    /\ TemplateSelected
    /\ Reported
    /\ Len(batch_report.documents) >= 2

---------------------------------------------------------------------------
(* What the parser claims read. *)

\* the tokens of a text that are not whitespace
NonWs(text) == SelectSeq(text, LAMBDA tok : tok.kind # "ws")

\* a JSON object between an opening ``` or ```json and a closing ```, with
\* whitespace anywhere around them
IsFenced(text) ==
    LET toks == NonWs(text)
    IN  /\ Len(toks) = 3
        /\ toks[1].kind \in {"fence", "fence_json"}
        /\ toks[2].kind = "json"
        /\ toks[3].kind = "fence"

\* the response that gives the payload of a fenced text without the fences
Unfenced(text) == Reply(<<NonWs(text)[2]>>, <<>>)

(* C21: a response wrapped in ``` or ```json fences, with or without       *)
(* whitespace around them, is analyzed to the same result as the payload   *)
(* alone, in both analyzers.                                               *)
C21_FencesTolerated ==
    (Returned /\ response.kind = "reply" /\ IsFenced(response.text)) =>
        result = Analyzer(impl, Unfenced(response.text))

\* explanatory prose, then a JSON object, whitespace anywhere around them
IsProseThenPayload(text) ==
    LET toks == NonWs(text)
    IN  /\ Len(toks) = 2
        /\ toks[1] = Prose
        /\ toks[2].kind = "json"

\* a JSON object alone whose top-level keys are not all in the schema's case
IsRecasedPayload(text) ==
    /\ Len(text) = 1
    /\ text[1].kind = "json"
    /\ \E K \in DOMAIN text[1].val : SchemaKey(K) # K

\* the object with its top-level keys in the schema's letter case
SchemaCased(obj) ==
    [k \in {SchemaKey(K) : K \in DOMAIN obj} |->
        obj[CHOOSE K \in DOMAIN obj : SchemaKey(K) = k]]

(* C22: a response made of explanatory prose followed by a valid payload,  *)
(* and a payload whose keys differ from the schema's in letter case only,  *)
(* are analyzed to the same result as the plain payload, without an error. *)
C22_ProseAndKeyCaseTolerated ==
    (Returned /\ response.kind = "reply") =>
        /\ IsProseThenPayload(response.text) =>
              /\ ~IsErrorResult(result)
              /\ result = Analyzer(impl, Reply(<<NonWs(response.text)[2]>>, <<>>))
        /\ IsRecasedPayload(response.text) =>
              /\ ~IsErrorResult(result)
              /\ result = Analyzer(impl,
                            Reply(<<Json(SchemaCased(response.text[1].val))>>, <<>>))

\* the text of the response as the analyzer i reads it
RawText(i, resp) == IF i = "v1" THEN ResultText(resp) ELSE resp.text

\* the model replied and json.loads raises JSONDecodeError in the analyzer i
Undecodable(i, resp) ==
    /\ resp.kind = "reply"
    /\ IF i = "v1"
       THEN ResultText(resp) # <<>> /\ ~Decodable(CleanResponse(ResultText(resp)))
       ELSE ~Decodable(resp.text)

(* C23: when the model's response cannot be decoded, analyze returns an    *)
(* error result whose raw_response is the text of the response exactly as  *)
(* the model gave it, with no points and no global_recommendation.         *)
C23_ParseErrorCarriesRawText ==
    (Returned /\ Undecodable(impl, response)) =>
        /\ IsErrorResult(result)
        /\ "raw_response" \in DOMAIN result
        /\ result.raw_response = RawText(impl, response)
        /\ Get(result, "points", <<>>) = <<>>
        /\ "global_recommendation" \notin DOMAIN result

---------------------------------------------------------------------------
(* C24: after analyze_multiple every result is what analyze returned for   *)
(* its document with "filename" and "metadata" added and nothing else      *)
(* changed, filename being document_<position from 1> and metadata the     *)
(* empty mapping when the document has none; generate_batch_report gives   *)
(* the results back as they were.                                          *)
C24_OnlyEnrichmentAdded ==
    /\ \A i \in 1..Len(results) :
          LET analyzed == Analyzer(impl, doc_responses[i])
              doc == documents[i]
          IN  /\ DOMAIN results[i] = DOMAIN analyzed \cup {"filename", "metadata"}
              /\ \A k \in DOMAIN analyzed \ {"filename", "metadata"} :
                    results[i][k] = analyzed[k]
              /\ results[i].filename =
                    IF "filename" \in DOMAIN doc THEN doc.filename
                    ELSE "document_" \o ToString(i)
              /\ results[i].metadata =
                    IF "metadata" \in DOMAIN doc THEN doc.metadata
                    ELSE [k \in {} |-> Null]
    /\ Reported => batch_report.documents = results

\* a report on two documents given without filename and metadata, one
\* analyzed with an error and one without
C24_Witness ==
    /\ Reported
    /\ Len(results) = 2
    /\ \A i \in 1..2 : DOMAIN documents[i] = {"text"}
    /\ IsErrorResult(results[1])
    /\ ~IsErrorResult(results[2])
    /\ results[2].filename = "document_2"

---------------------------------------------------------------------------
(* C25: in every successful result of analyze the points are in the order  *)
(* of the template's control points: point i has the name of control       *)
(* point i.                                                                *)
C25_PointsInTemplateOrder ==
    Succeeded =>
        \A i \in 1..Len(ResultPoints) :
            /\ i <= Len(ActiveTemplate.control_points)
            /\ ResultPoints[i].name = ActiveTemplate.control_points[i].name

(* C26: the summary of every result returned by analyze counts the         *)
(* result's own points: total_points is their number, conforme, douteux    *)
(* and non_conforme are the numbers of points of each status, and they add *)
(* up to total_points, also when the response has no summary or one that   *)
(* disagrees with its points.                                              *)
C26_SummaryCountsPoints ==
    Returned =>
        LET summary == Get(result, "summary", [k \in {} |-> Null])
            n(status) == Cardinality({i \in 1..Len(ResultPoints) :
                                         ResultPoints[i].status = status})
        IN  /\ Get(summary, "total_points", -1) = Len(ResultPoints)
            /\ Get(summary, "conforme", -1) = n("CONFORME")
            /\ Get(summary, "douteux", -1) = n("DOUTEUX")
            /\ Get(summary, "non_conforme", -1) = n("NON_CONFORME")
            /\ n("CONFORME") + n("DOUTEUX") + n("NON_CONFORME") = Len(ResultPoints)

(* C27: every point of a result returned by analyze has the criticity of   *)
(* the template's control point of the same name, whatever criticity the   *)
(* response stated.                                                        *)
C27_CriticityFromTemplate ==
    Returned =>
        \A i \in 1..Len(ResultPoints) :
            \A j \in 1..Len(ActiveTemplate.control_points) :
                ResultPoints[i].name = ActiveTemplate.control_points[j].name =>
                    ResultPoints[i].criticity = ActiveTemplate.control_points[j].criticity

(* C28: a point on the absence-is-conforme list (Corps Etranger, VSM,      *)
(* Aiguilles) whose evidence says the document does not mention it has     *)
(* status CONFORME, and every other point whose evidence says the          *)
(* information is absent has status NON_CONFORME.                          *)
C28_AbsencePolicy ==
    Returned =>
        \A i \in 1..Len(ResultPoints) :
            ResultPoints[i].value_found \in AbsenceMarkers =>
                IF ResultPoints[i].name \in AbsenceIsConforme
                THEN ResultPoints[i].status = "CONFORME"
                ELSE ResultPoints[i].status = "NON_CONFORME"

---------------------------------------------------------------------------
(* C29: for every list of results, also with a global_status missing or    *)
(* outside the three values, the three counts of the batch summary are not *)
(* negative and add up to total_documents, which is the length of the      *)
(* "documents" list.                                                       *)
C29_CountsAddUp ==
    Reported =>
        LET s == batch_report.batch_summary
        IN  /\ s.conforme >= 0
            /\ s.partiellement_conforme >= 0
            /\ s.non_conforme >= 0
            /\ s.conforme + s.partiellement_conforme + s.non_conforme
                  = s.total_documents
            /\ s.total_documents = Len(batch_report.documents)

\* a report on results of which one has a global_status that is missing or
\* outside the three values, and one is PARTIELLEMENT_CONFORME
C29_Witness ==
    /\ Reported
    /\ \E i \in 1..Len(results) : GlobalStatusOf(results[i]) \notin GlobalStatuses
    /\ \E i \in 1..Len(results) : GlobalStatusOf(results[i]) = "PARTIELLEMENT_CONFORME"
    /\ batch_report.batch_summary.partiellement_conforme >= 2

---------------------------------------------------------------------------
(* C30: in every result returned by analyze, global_status CONFORME comes  *)
(* with global_recommendation VALIDER and no critical issue, and           *)
(* global_recommendation REFUSER comes with a global_status other than     *)
(* CONFORME.                                                               *)
C30_TracksAgree ==
    Returned =>
        LET global_status == Get(result, "global_status", Null)
            global_recommendation == Get(result, "global_recommendation", Null)
            summary == Get(result, "summary", [k \in {} |-> Null])
        IN  /\ global_status = "CONFORME" =>
                  /\ global_recommendation = "VALIDER"
                  /\ Get(summary, "critical_issues", <<>>) = <<>>
            /\ global_recommendation = "REFUSER" => global_status # "CONFORME"

===========================================================================
